---- MODULE Spec2Model ----
(***************************************************************************)
(* djangae: the App Engine datastore backend for Django                    *)
(* (djangae/db/backends/appengine/base.py).                                *)
(*                                                                         *)
(* The model covers the cursor of the backend: the write path              *)
(* (execute_appengine_query with an InsertQuery), the WHERE-tree lowering  *)
(* (execute_appengine_query with a select query, _apply_filters,           *)
(* _apply_filter, _update_projection_state), the result iterator           *)
(* (fetchmany) and the entity cache keyed by unique-constraint             *)
(* fingerprints (cache_entity, generate_unique_key).                       *)
(*                                                                         *)
(* Collaborators outside the repository are modelled by their documented   *)
(* behaviour: datastore.Query is a dict of "column op" -> value with the   *)
(* projection kept in its query options, Query.Run returns a one-shot      *)
(* iterator, datastore.Put assigns integer ids in order, the datastore is  *)
(* read consistently, and the Django cache keeps an entry until its        *)
(* timeout elapses.                                                        *)
(***************************************************************************)
EXTENDS Integers, Sequences, FiniteSets, TLC

(***************************************************************************)
(* Bounds of the model.                                                    *)
(***************************************************************************)
\* Largest column value; column values are 1..MaxVal, None is NULL.
MaxVal == 2
\* Largest number of entities the datastore holds.
MaxEntities == 2
\* Largest number of rows of one insert.
MaxRows == 2
\* Largest size passed to fetchmany.
MaxSize == 2
\* Largest number of pending native queries of one cursor.
MaxQueries == 4
\* Number of cursors.
NumCursors == 1
\* Largest number of children of the root of a flat predicate tree.
MaxChildren == 2

\* Python's None.
NULL == 0

\* start_cursor = None: no continuation token.
NoToken == -1

Vals == 1..MaxVal
Cursors == 1..NumCursors

(***************************************************************************)
(* Sequence helpers.                                                       *)
(***************************************************************************)
Range(s) == {s[i] : i \in 1..Len(s)}

SeqsUpTo(S, n) == UNION {[1..k -> S] : k \in 0..n}

NonEmptySeqsUpTo(S, n) == UNION {[1..k -> S] : k \in 1..n}

Take(s, n) == IF n >= Len(s) THEN s ELSE SubSeq(s, 1, n)

Drop(s, n) == IF n >= Len(s) THEN <<>> ELSE SubSeq(s, n + 1, Len(s))

RECURSIVE FlattenSeq(_)
FlattenSeq(ss) == IF ss = <<>> THEN <<>> ELSE Head(ss) \o FlattenSeq(Tail(ss))

\* sorted(pairs, key=lambda x: x[0]) on the small set of field names: the
\* names in alphabetical order.
FieldOrder == <<"body", "id", "slug", "title">>

(***************************************************************************)
(* The model class the queries are against: Post(id PK, slug unique,       *)
(* title unique, body text nullable) with unique_together (title, slug).   *)
(***************************************************************************)
AppLabel == "blog"

DbTable == "post"

\* model._meta.fields, in declaration order
Fields == <<
    [name |-> "id",    column |-> "id",    db_type |-> "integer",
     null |-> FALSE, primary_key |-> TRUE,  unique |-> TRUE],
    [name |-> "slug",  column |-> "slug",  db_type |-> "string",
     null |-> FALSE, primary_key |-> FALSE, unique |-> TRUE],
    [name |-> "title", column |-> "title", db_type |-> "string",
     null |-> FALSE, primary_key |-> FALSE, unique |-> TRUE],
    [name |-> "body",  column |-> "body",  db_type |-> "text",
     null |-> TRUE,  primary_key |-> FALSE, unique |-> FALSE] >>

\* model._meta.unique_together
UniqueTogether == << <<"title", "slug">> >>

\* model._meta.pk
PkField == Fields[1]

GetField(name) == CHOOSE f \in Range(Fields) : f.name = name

Columns == {"id", "slug", "title", "body"}

\* query.fields of an InsertQuery: the concrete fields without the AutoField
\* primary key, whose value the datastore assigns.
InsertFields == SubSeq(Fields, 2, Len(Fields))

(***************************************************************************)
(* Unique-key fingerprints.                                                *)
(***************************************************************************)
\* get_uniques_from_model: the unique_together tuples, then one singleton per
\* unique field (the primary key included), as lists of columns.
get_uniques_from_model ==
    [i \in 1..Len(UniqueTogether) |->
        [j \in 1..Len(UniqueTogether[i]) |-> GetField(UniqueTogether[i][j]).column]]
    \o FlattenSeq([i \in 1..Len(Fields) |->
        IF Fields[i].unique THEN << <<Fields[i].column>> >> ELSE <<>>])

\* '%s' % value
Str(v) == IF v = NULL THEN "None" ELSE ToString(v)

RECURSIVE JoinParts(_)
JoinParts(parts) ==
    IF parts = <<>> THEN ""
    ELSE IF Len(parts) = 1 THEN parts[1][1] \o ":" \o Str(parts[1][2])
    ELSE parts[1][1] \o ":" \o Str(parts[1][2]) \o "|" \o JoinParts(Tail(parts))

\* sorted(fields_and_values, key=lambda x: x[0]); the sort is stable, a
\* field occurs once in a unique constraint.
SortByField(pairs) ==
    FlattenSeq([i \in 1..Len(FieldOrder) |->
        FlattenSeq([j \in 1..Len(pairs) |->
            IF pairs[j][1] = FieldOrder[i] THEN <<pairs[j]>> ELSE <<>>])])

\* generate_unique_key: "<app>.<table>|f1:v1|f2:v2" with the pairs sorted by
\* field name.
generate_unique_key(fields_and_values) ==
    AppLabel \o "." \o DbTable \o "|" \o JoinParts(SortByField(fields_and_values))

(***************************************************************************)
(* Entities.  An entity is its key (0 before the datastore assigns one)    *)
(* and its properties; a property that is not set reads as None.           *)
(***************************************************************************)
NoEntity == [key |-> 0, id |-> NULL, slug |-> NULL, title |-> NULL, body |-> NULL]

\* The rows an insert is given: the values of the instance's fields.
Rows == [slug : Vals \cup {NULL}, title : Vals, body : {NULL}]

VARIABLES
    \* the persisted entities of the kind, in key order (the key is the index)
    datastore,
    \* django.core.cache: the live entries [key, entity], oldest set first
    cache,
    \* the fields of each Cursor object
    cursors,
    \* what the last call was given and what it answered
    last

vars == <<datastore, cache, cursors, last>>

(***************************************************************************)
(* The entity cache.                                                       *)
(***************************************************************************)
CacheKeys(c) == {c[i].key : i \in 1..Len(c)}

\* cache.get(key): the entity, or None (NoEntity)
CacheGet(c, key) ==
    IF key \in CacheKeys(c)
    THEN (CHOOSE e \in Range(c) : e.key = key).entity
    ELSE NoEntity

\* cache.set(key, entity, DEFAULT_CACHE_TIMEOUT): the entry replaces the one
\* under the key and is the youngest of the cache.
CacheSet(c, key, entity) ==
    Append(SelectSeq(c, LAMBDA e : e.key # key), [key |-> key, entity |-> entity])

\* key_parts = [ (x, entity[x]) for x in fields ]
KeyParts(fields, entity) == [i \in 1..Len(fields) |-> <<fields[i], entity[fields[i]]>>]

\* unique_keys of cache_entity
UniqueKeys(entity) ==
    [i \in 1..Len(get_uniques_from_model) |->
        generate_unique_key(KeyParts(get_uniques_from_model[i], entity))]

RECURSIVE CacheSetAll(_, _, _)
CacheSetAll(c, keys, entity) ==
    IF keys = <<>> THEN c
    ELSE CacheSetAll(CacheSet(c, Head(keys), entity), Tail(keys), entity)

\* cache_entity(model, entity)
cache_entity(c, entity) == CacheSetAll(c, UniqueKeys(entity), entity)

\* get_entity_from_cache(key)
get_entity_from_cache(c, key) == CacheGet(c, key)

(***************************************************************************)
(* Cursor.                                                                 *)
(***************************************************************************)
NoResults == [kind |-> "None", items |-> <<>>]

\* Cursor.__init__
NewCursor == [
    results |-> NoResults,
    queries |-> <<>>,
    start_cursor |-> NoToken,
    returned_ids |-> <<>>,
    queried_fields |-> <<>>,
    query_done |-> TRUE,
    all_filters |-> <<>>,
    last_query_model |-> FALSE ]

NoCall == [
    op |-> "init", cursor |-> 0, err |-> "",
    objs |-> <<>>, put |-> <<>>,
    select |-> <<>>, where |-> <<>>, stale |-> 0,
    size |-> 0, out |-> <<>>, probes |-> <<>>, hit |-> FALSE,
    run |-> FALSE, run_limit |-> 0, run_start |-> NoToken, multi |-> FALSE,
    sql |-> "" ]

Init ==
    /\ datastore = <<>>
    /\ cache = <<>>
    /\ cursors = [c \in Cursors |-> NewCursor]
    /\ last = NoCall

(***************************************************************************)
(* The write path.                                                         *)
(***************************************************************************)
\* The non-null check of django_instance_to_entity on one field value.
NullViolation(field, value) ==
    (~field.null /\ ~field.primary_key) /\ value = NULL

\* django_instance_to_entity raises IntegrityError on this instance.
RowViolates(row) ==
    \E i \in 1..Len(InsertFields) :
        NullViolation(InsertFields[i], row[InsertFields[i].column])

\* django_instance_to_entity: the entity of the instance, without a key.
django_instance_to_entity(row) ==
    [NoEntity EXCEPT !.slug = row.slug, !.title = row.title, !.body = row.body]

\* A write path that persists instance by instance: the instances before
\* the first that violates a non-null constraint are put.
PutBatchPerInstance(objs) ==
    IF \E i \in 1..Len(objs) : RowViolates(objs[i])
    THEN SubSeq(objs, 1, (CHOOSE i \in 1..Len(objs) :
            /\ RowViolates(objs[i])
            /\ \A j \in 1..(i - 1) : ~RowViolates(objs[j])) - 1)
    ELSE objs

\* The instances datastore.Put is given: all of them, and none when the
\* conversion of one raised (Put is never reached).
PutBatch(objs) ==
    IF \E i \in 1..Len(objs) : RowViolates(objs[i]) THEN <<>> ELSE objs

\* datastore.Put(entities): the keys assigned, in insertion order.
AssignedKeys(store, n) == [i \in 1..n |-> Len(store) + i]

\* The entities as persisted: each with its key.
Persisted(store, objs) ==
    [i \in 1..Len(objs) |->
        [django_instance_to_entity(objs[i]) EXCEPT !.key = Len(store) + i]]

\* entity[model._meta.pk.column] = key.id_or_name()
WithPk(entity) == [entity EXCEPT ![PkField.column] = entity.key]

RECURSIVE CacheAll(_, _)
CacheAll(c, entities) ==
    IF entities = <<>> THEN c
    ELSE CacheAll(cache_entity(c, WithPk(Head(entities))), Tail(entities))

\* execute_appengine_query(model, query) with an InsertQuery of objs.
ExecuteInsert(c, objs) ==
    LET batch == PutBatch(objs)
        bad == \E i \in 1..Len(objs) : RowViolates(objs[i])
        ents == Persisted(datastore, batch)
    IN  /\ Len(datastore) + Len(batch) <= MaxEntities
        /\ datastore' = datastore \o ents
        /\ cache' = CacheAll(cache, ents)
        /\ cursors' = IF bad /\ batch = <<>> THEN cursors
                      ELSE [cursors EXCEPT
                              ![c].returned_ids = AssignedKeys(datastore, Len(batch)),
                              ![c].query_done = FALSE]
        /\ last' = [NoCall EXCEPT
                      !.op = "insert", !.cursor = c, !.objs = objs,
                      !.err = IF bad THEN "IntegrityError" ELSE "",
                      !.put = [i \in 1..Len(ents) |-> WithPk(ents[i])]]

(***************************************************************************)
(* Native queries.  A datastore.Query is a dict "column op" -> value (here *)
(* the set of its (column, op, value) items) with the projection in its    *)
(* query options; a MultiQuery holds its bound queries.                    *)
(***************************************************************************)
\* datastore.Query(kind, projection=projection); projection <<>> is None
NewQuery(projection) ==
    [kind |-> "Query", filters |-> {}, projection |-> projection, bound |-> <<>>]

\* datastore.MultiQuery(bound_queries, [])
MultiQuery(bound_queries) ==
    [kind |-> "MultiQuery", filters |-> {}, projection |-> <<>>, bound |-> bound_queries]

\* bool(query): a dict without items is false
Truthy(query) == query.filters # {}

\* query["%s %s" % (column, op)] = value
SetItem(query, column, op, value) ==
    [query EXCEPT !.filters =
        {f \in @ : ~(f[1] = column /\ f[2] = op)} \cup {<<column, op, value>>}]

\* new_query = datastore.Query(kind); new_query.update(query): the items are
\* copied, the query options (the projection) are not.
CopyWithoutProjection(query) == [NewQuery(<<>>) EXCEPT !.filters = query.filters]

OPERATORS_MAP_KEYS ==
    {"exact", "gt", "gte", "lt", "lte", "isnull", "in", "startswith", "range", "year"}

\* OPERATORS_MAP.get(lookup_type); "" is None
OPERATORS_MAP(lookup_type) ==
    CASE lookup_type = "exact" -> "="
      [] lookup_type = "gt"    -> ">"
      [] lookup_type = "gte"   -> ">="
      [] lookup_type = "lt"    -> "<"
      [] lookup_type = "lte"   -> "<="
      [] OTHER                 -> ""

(***************************************************************************)
(* The predicate tree.  A child is a node (connector, negated, children)   *)
(* or a leaf (field, lookup, value); value is the list                     *)
(* Field.get_db_prep_lookup made of the filter argument.                   *)
(***************************************************************************)
Node(connector, negated, children) ==
    [node |-> TRUE, connector |-> connector, negated |-> negated,
     children |-> children, field |-> "", lookup |-> "", value |-> <<>>]

Leaf(field, lookup, value) ==
    [node |-> FALSE, connector |-> "", negated |-> FALSE,
     children |-> <<>>, field |-> field, lookup |-> lookup, value |-> value]

\* normalize_value raises: a list of several values under a lookup that
\* takes one.
ListArgument(child) ==
    child.lookup \notin {"in", "range", "year"} /\ Len(child.value) > 1

\* normalize_value: lists stay lists under in, range and year; a singleton
\* is unwrapped (0 stands for the values the model does not follow: the
\* isnull annotation, the stripped startswith prefix).
normalize_value(child) ==
    IF child.lookup \in {"in", "range", "year"} THEN child.value
    ELSE IF child.lookup \in {"isnull", "startswith"} \/ child.value = <<>> THEN NULL
    ELSE child.value[1]

(***************************************************************************)
(* The lowering.  Its state is the cursor's list of pending queries        *)
(* (queries), the list object self.all_filters (filters) and the error     *)
(* raised, "" while none is.                                               *)
(***************************************************************************)
\* _update_projection_state rebuilds the queries without projection.
ProjectionForbidden(queries, field, lookup_type) ==
    /\ queries[1].projection # <<>>
    /\ field.column \in Range(queries[1].projection)
    /\ \/ field.db_type \in {"text", "bytes"}
       \/ lookup_type \in {"exact", "in"}

\* _update_projection_state(field, lookup_type): self.queries afterwards
_update_projection_state(queries, field, lookup_type) ==
    IF ProjectionForbidden(queries, field, lookup_type)
    THEN [i \in 1..Len(queries) |-> CopyWithoutProjection(queries[i])]
    ELSE queries

\* column = field.column; "__key__" if field.primary_key
FilterColumn(field) == IF field.primary_key THEN "__key__" ELSE field.column

\* The write of line 233 when query_to_update was None: query_to_update is
\* the object self.query named when _apply_filter was entered.  If
\* _update_projection_state rebuilt self.queries since, that object is no
\* longer one of the pending queries and the write does not reach them.
WriteToSelfQuery(queries, rebuilt, column, op, value) ==
    IF rebuilt THEN queries
    ELSE [queries EXCEPT ![1] = SetItem(@, column, op, value)]

\* The loops of the "in" branch, at query i and value k.  pending is
\* self.queries (replaced only after the loops), new_queries the list under
\* construction.  The inner call _apply_filter(.., 'exact', .., v,
\* query_to_update=new_query) writes to new_query unless it is false (no
\* items), and then to self.query, the first pending query.
RECURSIVE InLoop(_, _, _, _, _, _)
InLoop(pending, new_queries, column, value, i, k) ==
    IF i > Len(pending) THEN new_queries
    ELSE IF k > Len(value) THEN InLoop(pending, new_queries, column, value, i + 1, 1)
    ELSE LET new_query == CopyWithoutProjection(pending[i])
         IN  IF Truthy(new_query)
             THEN InLoop(pending,
                         Append(new_queries, SetItem(new_query, column, "=", value[k])),
                         column, value, i, k + 1)
             ELSE InLoop([pending EXCEPT ![1] = SetItem(@, column, "=", value[k])],
                         Append(new_queries, new_query),
                         column, value, i, k + 1)

\* _apply_filter(model, field, lookup_type, negated, value) as _apply_filters
\* calls it: the state afterwards and the filter returned (<<>> is None).
_apply_filter(st, field, lookup_type, value) ==
    IF lookup_type \notin OPERATORS_MAP_KEYS
    THEN [st |-> [st EXCEPT !.err = "DatabaseError"], applied |-> <<>>]
    ELSE LET column == FilterColumn(field)
             rebuilt == ProjectionForbidden(st.queries, field, lookup_type)
             queries == _update_projection_state(st.queries, field, lookup_type)
             op == OPERATORS_MAP(lookup_type)
         IN  IF op = "" /\ lookup_type = "in"
             THEN [st |-> [st EXCEPT !.queries = InLoop(queries, <<>>, column, value, 1, 1)],
                   applied |-> <<>>]
             ELSE IF op = ""
             THEN [st |-> [st EXCEPT !.queries = queries, !.err = "AssertionError"],
                   applied |-> <<>>]
             ELSE [st |-> [st EXCEPT !.queries =
                              WriteToSelfQuery(queries, rebuilt, column, op, value)],
                   applied |-> <<column, op, value>>]

\* A value bound to the parameters negated and all_filters of _apply_filters:
\* a bool, or the list object self.all_filters.
PyBool(b) == [list |-> FALSE, b |-> b]

PyList == [list |-> TRUE, b |-> FALSE]

\* bool(v): a list is true when it has items
Truth(v, st) == IF v.list THEN st.filters # <<>> ELSE v.b

\* The arguments the recursive call of _apply_filters binds to its
\* parameters (all_filters, negated), given the caller's all_filters and
\* negated: the call passes (model, child, negated, all_filters).
RecursiveArgs(all_filters, negated) == [all_filters |-> negated, negated |-> all_filters]

\* _parse_child and _apply_filter on a leaf, then all_filters.append.
ApplyLeaf(st, child, all_filters) ==
    IF ListArgument(child) THEN [st EXCEPT !.err = "DatabaseError"]
    ELSE LET r == _apply_filter(st, GetField(child.field), child.lookup,
                                normalize_value(child))
         IN  IF r.st.err # "" \/ r.applied = <<>> THEN r.st
             ELSE IF all_filters.list
             THEN [r.st EXCEPT !.filters = Append(@, r.applied)]
             ELSE [r.st EXCEPT !.err = "AttributeError"]

RECURSIVE _apply_filters(_, _, _, _)
RECURSIVE ApplyChildren(_, _, _, _)

\* for child in where.children
ApplyChildren(st, children, all_filters, negated) ==
    IF children = <<>> \/ st.err # "" THEN st
    ELSE LET child == Head(children)
             args == RecursiveArgs(all_filters, negated)
             st1 == IF child.node
                    THEN _apply_filters(st, child, args.all_filters, args.negated)
                    ELSE ApplyLeaf(st, child, all_filters)
         IN  ApplyChildren(st1, Tail(children), all_filters, negated)

\* A traversal without the connector test of lines 183-184.
ApplyFiltersAnyConnector(st, where, all_filters, negated) ==
    LET neg == IF where.negated THEN PyBool(~Truth(negated, st)) ELSE negated
    IN  ApplyChildren(st, where.children, all_filters, neg)

\* _apply_filters(model, where, all_filters, negated)
_apply_filters(st, where, all_filters, negated) ==
    LET neg == IF where.negated THEN PyBool(~Truth(negated, st)) ELSE negated
    IN  IF ~Truth(neg, st) /\ where.connector # "AND"
        THEN [st EXCEPT !.err = "DatabaseError"]
        ELSE ApplyChildren(st, where.children, all_filters, neg)

\* self.queried_fields of a select: the selected columns, all the model's
\* when none is, with the primary key's replaced by "__key__".
QueriedFields(select) ==
    LET cols == IF select # <<>> THEN select
                ELSE [i \in 1..Len(Fields) |-> Fields[i].column]
    IN  IF \E i \in 1..Len(cols) : cols[i] = PkField.name
        THEN LET i == CHOOSE i \in 1..Len(cols) :
                        /\ cols[i] = PkField.name
                        /\ \A j \in 1..(i - 1) : cols[j] # PkField.name
             IN  [cols EXCEPT ![i] = "__key__"]
        ELSE cols

\* projection of a select: the list object self.queried_fields when columns
\* are selected (the "__key__" rewrite is seen through it), None otherwise.
Projection(select) == IF select # <<>> THEN QueriedFields(select) ELSE <<>>

\* the setter of Cursor.query
SetQuery(queries, value) ==
    IF queries # <<>> THEN [queries EXCEPT ![1] = value] ELSE <<value>>

\* The lowering of a select by execute_appengine_query, lines 298-321.
Lower(queries, q) ==
    _apply_filters(
        [queries |-> SetQuery(queries, NewQuery(Projection(q.select))),
         filters |-> <<>>, err |-> ""],
        q.where, PyList, PyBool(FALSE))

\* lines 323-327: several pending queries are wrapped in one MultiQuery
Wrap(queries) == IF Len(queries) >= 2 THEN <<MultiQuery(queries)>> ELSE queries

\* execute_appengine_query(model, query) with a select query.
ExecuteSelect(c, q) ==
    LET st == Lower(cursors[c].queries, q)
    IN  /\ Len(st.queries) <= MaxQueries
        /\ cursors' = [cursors EXCEPT ![c] =
              IF st.err # ""
              THEN [@ EXCEPT !.queried_fields = QueriedFields(q.select),
                             !.queries = st.queries,
                             !.all_filters = st.filters]
              ELSE [@ EXCEPT !.queried_fields = QueriedFields(q.select),
                             !.queries = Wrap(st.queries),
                             !.all_filters = st.filters,
                             !.last_query_model = TRUE,
                             !.query_done = FALSE]]
        /\ last' = [NoCall EXCEPT
                      !.op = "select", !.cursor = c, !.err = st.err,
                      !.select = q.select, !.where = q.where,
                      !.stale = IF cursors[c].queries = <<>> THEN 0
                                ELSE Len(cursors[c].queries) - 1]
        /\ UNCHANGED <<datastore, cache>>

(***************************************************************************)
(* The result iterator.                                                    *)
(***************************************************************************)
\* the value of a column of an entity as a filter reads it
PropertyValue(entity, column) ==
    IF column = "__key__" THEN entity.key ELSE entity[column]

Compare(a, op, b) ==
    CASE op = "="  -> a = b
      [] op = ">"  -> a > b
      [] op = ">=" -> a >= b
      [] op = "<"  -> a < b
      [] op = "<=" -> a <= b

\* the entity satisfies every item of the query
Matches(entity, filters) ==
    \A f \in filters : Compare(PropertyValue(entity, f[1]), f[2], f[3])

\* the full result of a native query, in key order
QueryResult(store, query) == SelectSeq(store, LAMBDA e : Matches(e, query.filters))

\* MultiQuery.Run(): the entities of the bound queries' results, each once
MultiQueryResult(store, query) ==
    SelectSeq(store, LAMBDA e :
        \E i \in 1..Len(query.bound) : Matches(e, query.bound[i].filters))

Offset(start) == IF start = NoToken THEN 0 ELSE start

\* Query.Run(limit=size, start=start_cursor): the page of the result
RunPage(store, query, size, start) ==
    Take(Drop(QueryResult(store, query), Offset(start)), size)

\* Query.GetCursor() after that Run: the position behind the page
GetCursor(store, query, size, start) ==
    Offset(start) + Len(RunPage(store, query, size, start))

\* lookup = { x[0]:x[2] for x in exact_filters }: the columns with an "="
\* filter
LookupColumns(all_filters) ==
    {all_filters[i][1] : i \in {j \in 1..Len(all_filters) : all_filters[j][2] = "="}}

\* lookup[column]: the value of the last "=" filter on the column
LookupValue(all_filters, column) ==
    LET js == {j \in 1..Len(all_filters) :
                  all_filters[j][2] = "=" /\ all_filters[j][1] = column}
        last_j == CHOOSE j \in js : \A k \in js : k <= j
    IN  all_filters[last_j][3]

\* the for/else of fetchmany: every field of the combination is in lookup
Covered(all_filters, fields) ==
    \A i \in 1..Len(fields) : fields[i] \in LookupColumns(all_filters)

\* the cache probes of fetchmany, one per covered unique combination, in the
\* order of get_uniques_from_model: the key and the entity found (NoEntity
\* for None)
Probes(c, all_filters) ==
    FlattenSeq([i \in 1..Len(get_uniques_from_model) |->
        LET fields == get_uniques_from_model[i]
        IN  IF Covered(all_filters, fields)
            THEN LET key == generate_unique_key(
                                [j \in 1..Len(fields) |->
                                    <<fields[j], LookupValue(all_filters, fields[j])>>])
                 IN  << [key |-> key, entity |-> get_entity_from_cache(c, key)] >>
            ELSE <<>>])

\* the cache is consulted: lines 349-369
ProbeGuard(cur) == cur.all_filters # <<>> /\ cur.last_query_model

\* entity_from_cache after the loop over the unique combinations: each
\* covered combination assigns it, the last one stands
EntityFromCache(probes) ==
    IF probes = <<>> THEN NoEntity ELSE probes[Len(probes)].entity

\* one result tuple: the columns of queried_fields
RowOf(entity, queried_fields) ==
    [i \in 1..Len(queried_fields) |-> PropertyValue(entity, queried_fields[i])]

RowsOf(entities, queried_fields) ==
    [i \in 1..Len(entities) |-> RowOf(entities[i], queried_fields)]

\* self.results after "for entity in self.results": an iterator is
\* consumed, a list is not
AfterIteration(results) ==
    IF results.kind = "iter" THEN [results EXCEPT !.items = <<>>] ELSE results

\* The cursor after lines 338-378 of fetchmany on a cursor with pending
\* queries, and the probes made.
Evaluate(cur, size) ==
    LET query == cur.queries[1]
        probes == IF query.kind # "MultiQuery" /\ ProbeGuard(cur)
                  THEN Probes(cache, cur.all_filters) ELSE <<>>
        entity_from_cache == EntityFromCache(probes)
    IN  IF query.kind = "MultiQuery"
        THEN [cur |-> [cur EXCEPT
                        !.results = [kind |-> "iter",
                                     items |-> MultiQueryResult(datastore, query)],
                        !.query_done = TRUE],
              probes |-> <<>>, hit |-> FALSE, run |-> TRUE]
        ELSE IF entity_from_cache = NoEntity
        THEN [cur |-> [cur EXCEPT
                        !.results = [kind |-> "iter",
                                     items |-> RunPage(datastore, query, size,
                                                       cur.start_cursor)],
                        !.start_cursor = GetCursor(datastore, query, size,
                                                   cur.start_cursor),
                        \* not self.results: an iterator object is true
                        !.query_done = FALSE],
              probes |-> probes, hit |-> FALSE, run |-> TRUE]
        ELSE [cur |-> [cur EXCEPT
                        !.results = [kind |-> "list", items |-> <<entity_from_cache>>],
                        !.query_done = TRUE,
                        !.start_cursor = NoToken],
              probes |-> probes, hit |-> TRUE, run |-> FALSE]

\* fetchmany(size)
FetchMany(c, size) ==
    LET cur == cursors[c]
        call == [NoCall EXCEPT !.op = "fetchmany", !.cursor = c, !.size = size]
    IN  /\ UNCHANGED <<datastore, cache>>
        /\ IF cur.query_done
           THEN /\ cursors' = cursors
                /\ last' = call
           ELSE IF cur.results.kind = "None" /\ cur.queries = <<>>
           THEN /\ cursors' = cursors
                /\ last' = [call EXCEPT !.err = "DatabaseError"]
           ELSE LET ev == IF cur.results.kind = "None" THEN Evaluate(cur, size)
                          ELSE [cur |-> cur, probes |-> <<>>, hit |-> FALSE,
                                run |-> FALSE]
                IN  /\ cursors' = [cursors EXCEPT ![c] =
                          [ev.cur EXCEPT !.results = AfterIteration(@)]]
                    /\ last' = [call EXCEPT
                          !.out = RowsOf(ev.cur.results.items, cur.queried_fields),
                          !.probes = ev.probes, !.hit = ev.hit, !.run = ev.run,
                          !.run_limit = IF ev.run /\ ~ev.cur.query_done THEN size ELSE 0,
                          !.run_start = IF ev.run THEN cur.start_cursor ELSE NoToken,
                          !.multi = cur.queries # <<>>
                                    /\ cur.queries[1].kind = "MultiQuery"]

\* The timeout of the oldest cache entry elapses.
CacheExpire ==
    /\ cache # <<>>
    /\ cache' = Tail(cache)
    /\ last' = [NoCall EXCEPT !.op = "expire"]
    /\ UNCHANGED <<datastore, cursors>>

(***************************************************************************)
(* The select queries the cursors are given.                               *)
(***************************************************************************)
\* [1, .., n] for n up to MaxVal: the value lists of the IN leaves
InLists == {[i \in 1..n |-> i] : n \in 1..MaxVal}

FullList == [i \in 1..MaxVal |-> i]

\* query.select: no column (all fields), a projection with the text column,
\* a projection with the primary key
Selects == {<<>>, <<"slug", "body">>, <<"id", "title">>}

FlatLeaves ==
    {Leaf("slug", "exact", <<1>>), Leaf("id", "exact", <<1>>),
     Leaf("body", "gt", <<1>>), Leaf("title", "gt", <<1>>),
     Leaf("title", "in", FullList), Leaf("id", "in", FullList)}
    \cup {Leaf("slug", "in", v) : v \in InLists}

\* lookups that are keys of OPERATORS_MAP without an operator, a lookup that
\* is no key, and a list argument under exact
OtherLeaves ==
    {Leaf("slug", l, <<1>>) : l \in {"isnull", "startswith", "year", "contains"}}
    \cup {Leaf("slug", "range", <<1, 2>>), Leaf("slug", "exact", <<1, 2>>)}

FlatTrees == {Node("AND", FALSE, ch) : ch \in SeqsUpTo(FlatLeaves, MaxChildren)}

RootTrees ==
    {Node(r[1], r[2], ch) :
        r \in {<<"OR", FALSE>>, <<"OR", TRUE>>, <<"AND", TRUE>>},
        ch \in {<<>>, <<Leaf("slug", "exact", <<1>>)>>, <<Leaf("slug", "in", FullList)>>}}

OtherTrees ==
    {Node("AND", FALSE, pre \o <<l>>) :
        pre \in {<<>>, <<Leaf("slug", "in", FullList)>>}, l \in OtherLeaves}

NestedNodes ==
    {Node(conn, neg, ch) :
        conn \in {"AND", "OR"}, neg \in BOOLEAN,
        ch \in {<<Leaf("slug", "exact", <<1>>)>>,
                <<Leaf("title", "in", FullList)>>,
                <<Leaf("title", "in", FullList), Leaf("body", "gt", <<1>>)>>}}

NestedTrees ==
    {Node("AND", FALSE, pre \o <<n>> \o post) :
        pre \in {<<>>, <<Leaf("slug", "exact", <<1>>)>>},
        n \in NestedNodes \cup
              {Node("AND", FALSE, <<Node("AND", FALSE, <<Leaf("slug", "exact", <<1>>)>>)>>)},
        post \in {<<>>, <<Leaf("title", "gt", <<1>>)>>}}

\* the selects of the lowering specification
LowerQueries ==
    {[select |-> s, where |-> w] : s \in Selects, w \in FlatTrees}
    \cup {[select |-> <<>>, where |-> w] :
            w \in RootTrees \cup OtherTrees \cup NestedTrees}

\* the selects of the full specification: point queries on the unique
\* columns, a scan, an IN query, a primary-key query, a query with an
\* inequality, a projection
ExecQueries ==
    {[select |-> <<>>, where |-> Node("AND", FALSE, ch)] :
        ch \in {<<>>,
                <<Leaf("slug", "in", FullList)>>,
                <<Leaf("id", "exact", <<1>>)>>,
                <<Leaf("slug", "exact", <<1>>), Leaf("title", "gt", <<1>>)>>}
               \cup {<<Leaf("slug", "exact", <<v>>)>> : v \in Vals}
               \cup {<<Leaf("slug", "exact", <<1>>), Leaf("title", "exact", <<w>>)>> :
                        w \in Vals}}
    \cup {[select |-> <<"id", "title">>,
           where |-> Node("AND", FALSE, <<Leaf("slug", "exact", <<1>>)>>)]}

\* the rows that violate no non-null constraint
ValidRows == {row \in Rows : ~RowViolates(row)}

Insert ==
    \E c \in Cursors : \E objs \in NonEmptySeqsUpTo(ValidRows, MaxRows) :
        ExecuteInsert(c, objs)

Query == \E c \in Cursors : \E q \in ExecQueries : ExecuteSelect(c, q)

Fetch == \E c \in Cursors : \E size \in 0..MaxSize : FetchMany(c, size)

Next ==
    \/ Insert
    \/ Query
    \/ Fetch
    \/ CacheExpire

Spec == Init /\ [][Next]_vars

(***************************************************************************)
(* The write path alone: inserts of any rows, and cache expiry.            *)
(***************************************************************************)
Write ==
    \E c \in Cursors : \E objs \in NonEmptySeqsUpTo(Rows, MaxRows) :
        ExecuteInsert(c, objs)

NextWrite ==
    \/ Write
    \/ CacheExpire

SpecWrite == Init /\ [][NextWrite]_vars

(***************************************************************************)
(* The lowering alone: one cursor is given select after select.            *)
(***************************************************************************)
Select == \E q \in LowerQueries : ExecuteSelect(1, q)

NextLower == Select

SpecLower == Init /\ [][NextLower]_vars

(***************************************************************************)
(* The lowering of the trees that differ in their root: roots with every   *)
(* connector and negation, single leaves, and the trees whose lowering     *)
(* fails behind an IN leaf.                                                *)
(***************************************************************************)
RootQueries ==
    {[select |-> s, where |-> w] :
        s \in Selects,
        w \in RootTrees \cup OtherTrees
              \cup {Node("AND", FALSE, <<l>>) : l \in FlatLeaves}}

SelectRoot == \E q \in RootQueries : ExecuteSelect(1, q)

NextRoot == SelectRoot

SpecRoot == Init /\ [][NextRoot]_vars

(***************************************************************************)
(* The cursor with its DB-API entry point for SQL strings.                 *)
(***************************************************************************)
\* DatabaseError and its subclasses, the classes the Database facade names
DatabaseErrors == {"DatabaseError", "IntegrityError", "NotSupportedError"}

SqlStrings == {"SELECT 1", "DELETE FROM post"}

\* Cursor.execute(sql, *params)
Execute(c, sql) ==
    /\ last' = [NoCall EXCEPT !.op = "execute", !.cursor = c, !.sql = sql,
                              !.err = "RuntimeError"]
    /\ UNCHANGED <<datastore, cache, cursors>>

ExecuteSql == \E c \in Cursors : \E sql \in SqlStrings : Execute(c, sql)

NextSql ==
    \/ Insert
    \/ Query
    \/ Fetch
    \/ ExecuteSql

SpecSql == Init /\ [][NextSql]_vars

(***************************************************************************)
(* What the properties read.                                               *)
(***************************************************************************)
\* the native queries a lowering emitted, before the MultiQuery envelope
Emitted(cur) ==
    IF cur.queries # <<>> /\ cur.queries[1].kind = "MultiQuery"
    THEN cur.queries[1].bound
    ELSE cur.queries

\* the leaves of a predicate tree, depth first
RECURSIVE LeavesOf(_)
LeavesOf(where) ==
    IF ~where.node THEN <<where>>
    ELSE FlattenSeq([i \in 1..Len(where.children) |-> LeavesOf(where.children[i])])

\* every node of the tree is a conjunction that is not negated
RECURSIVE ConjunctionOnly(_)
ConjunctionOnly(where) ==
    \/ ~where.node
    \/ /\ where.connector = "AND"
       /\ ~where.negated
       /\ \A i \in 1..Len(where.children) : ConjunctionOnly(where.children[i])

RECURSIVE WidthProduct(_)
WidthProduct(leaves) ==
    IF leaves = <<>> THEN 1
    ELSE (IF Head(leaves).lookup = "in" THEN Len(Head(leaves).value) ELSE 1)
         * WidthProduct(Tail(leaves))

\* the last call was a select that execute_appengine_query completed
Lowered == last.op = "select" /\ last.err = ""

\* the query carries an "=" filter on the column
HasEquality(query, column) == \E f \in query.filters : f[1] = column /\ f[2] = "="

\* the query carries a filter on the column
HasFilterOn(query, column) == \E f \in query.filters : f[1] = column

(***************************************************************************)
(* C1  IN-expansion content.  After the lowering of a tree whose only leaf *)
(* is "column IN [v1..vn]" with distinct values, there are n emitted       *)
(* queries, each value's filter (column, '=', vi) is on exactly one of     *)
(* them, and every emitted query has an equality filter on the column.     *)
(* The code leaves the first emitted query without the filter.             *)
(***************************************************************************)
OnlyLeafIsIn(where) ==
    /\ Len(LeavesOf(where)) = 1
    /\ LeavesOf(where)[1].lookup = "in"
    /\ \A i, j \in 1..Len(LeavesOf(where)[1].value) :
          i # j => LeavesOf(where)[1].value[i] # LeavesOf(where)[1].value[j]

C1_InExpansionContent ==
    (Lowered /\ OnlyLeafIsIn(last.where)) =>
        LET leaf == LeavesOf(last.where)[1]
            column == FilterColumn(GetField(leaf.field))
            emitted == Emitted(cursors[last.cursor])
        IN  /\ Len(emitted) = Len(leaf.value)
            /\ \A k \in 1..Len(leaf.value) :
                  Cardinality({i \in 1..Len(emitted) :
                      <<column, "=", leaf.value[k]>> \in emitted[i].filters}) = 1
            /\ \A i \in 1..Len(emitted) : HasEquality(emitted[i], column)

(***************************************************************************)
(* C2  IN-expansion count.  After the lowering of a conjunction-only tree  *)
(* the number of emitted queries is the product of the widths of its IN    *)
(* leaves.  It is not on a cursor whose earlier lowering failed after an   *)
(* IN expansion: the queries that lowering left behind are expanded too.   *)
(***************************************************************************)
C2_InExpansionCount ==
    (Lowered /\ ConjunctionOnly(last.where)) =>
        Len(Emitted(cursors[last.cursor])) = WidthProduct(LeavesOf(last.where))

(***************************************************************************)
(* C8  Projection guard on filtered columns.  When the first leaf of the   *)
(* tree is an exact or in lookup on a column of the projection list, then  *)
(* after the lowering every emitted query carries the filter on that       *)
(* column and none has the column in its projection.  The code writes the  *)
(* filter to the query object it replaced, so the filter is lost.          *)
(***************************************************************************)
FirstLeafOnProjection(select, where) ==
    /\ LeavesOf(where) # <<>>
    /\ LeavesOf(where)[1].lookup \in {"exact", "in"}
    /\ GetField(LeavesOf(where)[1].field).column \in Range(Projection(select))

C8_ProjectionGuard ==
    (Lowered /\ FirstLeafOnProjection(last.select, last.where)) =>
        LET field == GetField(LeavesOf(last.where)[1].field)
            emitted == Emitted(cursors[last.cursor])
        IN  \A i \in 1..Len(emitted) :
                /\ HasFilterOn(emitted[i], FilterColumn(field))
                /\ field.column \notin Range(emitted[i].projection)

(***************************************************************************)
(* C9  Text and bytes columns are never projected.  After any lowering     *)
(* that completed, no emitted query has a column of storage type text or   *)
(* bytes in its projection.  The code drops the projection only when a     *)
(* leaf filters a projected column.                                        *)
(***************************************************************************)
TextColumns == {f.column : f \in {g \in Range(Fields) : g.db_type \in {"text", "bytes"}}}

C9_TextNeverProjected ==
    Lowered =>
        \A i \in 1..Len(Emitted(cursors[last.cursor])) :
            Range(Emitted(cursors[last.cursor])[i].projection) \cap TextColumns = {}

(***************************************************************************)
(* C3  Cache write-through.  Right after an insert completed, the cache    *)
(* maps the fingerprint of every unique constraint of every entity of the  *)
(* insert to that entity.  Two rows of one insert with equal values on a   *)
(* unique constraint share the fingerprint, and the cache keeps the last.  *)
(***************************************************************************)
C3_CacheWriteThrough ==
    (last.op = "insert" /\ last.err = "") =>
        \A i \in 1..Len(last.put) : \A u \in 1..Len(get_uniques_from_model) :
            CacheGet(cache, generate_unique_key(
                KeyParts(get_uniques_from_model[u], last.put[i]))) = last.put[i]

(***************************************************************************)
(* C4  Cache hit outcome.  If a first fetchmany in single-query mode       *)
(* probes the cache and the probe of some covered unique constraint hits,  *)
(* it returns exactly one row, built from a cached entity, issues no       *)
(* datastore fetch, marks the cursor exhausted and clears the continuation *)
(* token.  In the code the probe of the last covered constraint decides:   *)
(* when it misses, the earlier hit is dropped and the datastore is asked.  *)
(***************************************************************************)
SomeProbeHit == \E i \in 1..Len(last.probes) : last.probes[i].entity # NoEntity

C4_CacheHitOutcome ==
    (last.op = "fetchmany" /\ ~last.multi /\ SomeProbeHit) =>
        /\ Len(last.out) = 1
        /\ \E i \in 1..Len(last.probes) :
              /\ last.probes[i].entity # NoEntity
              /\ last.out[1] = RowOf(last.probes[i].entity,
                                     cursors[last.cursor].queried_fields)
        /\ ~last.run
        /\ cursors[last.cursor].query_done
        /\ cursors[last.cursor].start_cursor = NoToken

(***************************************************************************)
(* C5  Continuation across fetches.  A fetchmany(size), size >= 1, on a    *)
(* single-query cursor that is not exhausted and has rows of its query     *)
(* behind its continuation token, without a cache hit, issues a datastore  *)
(* fetch with limit size from that token and returns that page.  The code  *)
(* fetches once per cursor: self.results is never None again, so the pages *)
(* after the first are never asked for.                                    *)
(***************************************************************************)
SingleQueryMode(cur) == cur.queries # <<>> /\ cur.queries[1].kind = "Query"

RowsRemain(cur) ==
    Drop(QueryResult(datastore, cur.queries[1]), Offset(cur.start_cursor)) # <<>>

C5_Continuation ==
    [][\A c \in Cursors :
        (/\ last'.op = "fetchmany" /\ last'.cursor = c /\ last'.size >= 1
         /\ SingleQueryMode(cursors[c])
         /\ ~cursors[c].query_done
         /\ RowsRemain(cursors[c])
         /\ ~last'.hit)
        => /\ last'.run
           /\ last'.run_limit = last'.size
           /\ last'.run_start = cursors[c].start_cursor
           /\ last'.out = RowsOf(RunPage(datastore, cursors[c].queries[1], last'.size,
                                         cursors[c].start_cursor),
                                 cursors[c].queried_fields)]_vars

(***************************************************************************)
(* C6  Cache read-through is guarded.  A fetchmany on a cursor that is not *)
(* exhausted probes the cache only in single-query mode with the "="       *)
(* filters covering a unique constraint; in every other case it probes     *)
(* nothing and its result comes from the datastore.  The last part fails   *)
(* on a cursor that holds the list of an earlier cache hit: the rows of    *)
(* the next query are built from that list.                                *)
(***************************************************************************)
CoversAUnique(cur) ==
    \E u \in 1..Len(get_uniques_from_model) :
        Covered(cur.all_filters, get_uniques_from_model[u])

C6_ReadThroughGuarded ==
    [][\A c \in Cursors :
        (/\ last'.op = "fetchmany" /\ last'.cursor = c /\ last'.err = ""
         /\ cursors[c].queries # <<>>
         /\ ~cursors[c].query_done)
        => LET guard == SingleQueryMode(cursors[c]) /\ CoversAUnique(cursors[c])
           IN  /\ last'.probes # <<>> => guard
               /\ ~guard => /\ last'.probes = <<>>
                            /\ cursors'[c].results.kind = "iter"]_vars

(***************************************************************************)
(* C7  Cache and datastore agree.  When the only filter of the query is    *)
(* "c exact v" on a column c with a single-field unique constraint, a      *)
(* fetchmany(size), size >= 1, served from the cache returns the rows the  *)
(* datastore fetch of the query would return.  Nothing keeps the values of *)
(* c unique, so the datastore can hold several entities with the value     *)
(* while the cache holds the last.                                         *)
(***************************************************************************)
OnlyFilterIsUniqueExact(cur) ==
    /\ Len(cur.all_filters) = 1
    /\ cur.all_filters[1][2] = "="
    /\ \E u \in 1..Len(get_uniques_from_model) :
          get_uniques_from_model[u] = <<cur.all_filters[1][1]>>

C7_CacheDatastoreAgree ==
    (/\ last.op = "fetchmany" /\ last.hit /\ last.size >= 1
     /\ OnlyFilterIsUniqueExact(cursors[last.cursor]))
    => last.out = RowsOf(RunPage(datastore, cursors[last.cursor].queries[1],
                                 last.size, NoToken),
                         cursors[last.cursor].queried_fields)

(***************************************************************************)
(* C10  Atomic non-null enforcement.  An insert with a row whose value for *)
(* a non-nullable field other than the primary key is None fails with      *)
(* IntegrityError and persists no entity, writes no cache entry and leaves *)
(* returned_ids as it was; an insert without such a row raises no          *)
(* IntegrityError.                                                         *)
(***************************************************************************)
HasNullViolation(objs) ==
    \E i \in 1..Len(objs) : \E j \in 1..Len(Fields) :
        /\ ~Fields[j].null
        /\ ~Fields[j].primary_key
        /\ objs[i][Fields[j].column] = NULL

C10_AtomicNonNull ==
    [][\A c \in Cursors :
        (last'.op = "insert" /\ last'.cursor = c)
        => IF HasNullViolation(last'.objs)
           THEN /\ last'.err = "IntegrityError"
                /\ datastore' = datastore
                /\ cache' = cache
                /\ cursors'[c].returned_ids = cursors[c].returned_ids
           ELSE last'.err # "IntegrityError"]_vars

\* an insert whose second row violates, after a valid first row, on a
\* datastore that holds entities, has failed
C10_Witness ==
    /\ last.op = "insert"
    /\ last.err = "IntegrityError"
    /\ Len(last.objs) = 2
    /\ ~HasNullViolation(<<last.objs[1]>>)
    /\ HasNullViolation(<<last.objs[2]>>)
    /\ datastore # <<>>
    /\ cursors[last.cursor].returned_ids # <<>>

(***************************************************************************)
(* C11  fetchmany size bound.  fetchmany(size) returns at most size row    *)
(* tuples: in multi-query mode, in single-query mode with a datastore      *)
(* fetch, and on a cache hit when size >= 1.  In multi-query mode the code *)
(* calls Run() without a limit and returns every entity of the result.     *)
(***************************************************************************)
C11_SizeBound ==
    (last.op = "fetchmany" /\ (last.hit => last.size >= 1)) =>
        Len(last.out) <= last.size

(***************************************************************************)
(* C12  Multi-query mode drains once.  When the lowering emitted more than *)
(* one native query, the first fetchmany returns every row of the          *)
(* multi-query's result, marks the cursor exhausted and records no         *)
(* continuation token; every later fetchmany returns the empty list        *)
(* without a datastore fetch.  On a cursor that fetched an earlier query   *)
(* the code does not run the multi-query at all.                           *)
(***************************************************************************)
MultiQueryMode(cur) == cur.queries # <<>> /\ cur.queries[1].kind = "MultiQuery"

C12_MultiQueryDrainsOnce ==
    [][\A c \in Cursors :
        (last'.op = "fetchmany" /\ last'.cursor = c /\ MultiQueryMode(cursors[c]))
        => IF cursors[c].query_done
           THEN last'.out = <<>> /\ ~last'.run
           ELSE /\ last'.out = RowsOf(MultiQueryResult(datastore, cursors[c].queries[1]),
                                      cursors[c].queried_fields)
                /\ cursors'[c].query_done
                /\ cursors'[c].start_cursor = cursors[c].start_cursor]_vars

(***************************************************************************)
(* C13  Flat filter list completeness.  After a lowering that completed,   *)
(* the triples of all_filters are exactly the (column, op, value) triples  *)
(* set on the emitted native queries, the equality triples of an IN        *)
(* expansion included.  The IN branch of _apply_filter returns None, so    *)
(* its triples are never appended.                                         *)
(***************************************************************************)
EmittedTriples(cur) == UNION {Emitted(cur)[i].filters : i \in 1..Len(Emitted(cur))}

C13_FlatFilterListComplete ==
    Lowered => Range(cursors[last.cursor].all_filters) = EmittedTriples(cursors[last.cursor])

(***************************************************************************)
(* C14  Top-level OR is rejected.  A select whose root node has connector  *)
(* OR and is not negated fails with DatabaseError, whatever the children   *)
(* of the root; no filter is set on a native query and none is appended to *)
(* all_filters: the query of the select is left without items, the other  *)
(* pending queries are left as they were and all_filters is empty.         *)
(***************************************************************************)
C14_TopLevelOrRejected ==
    [][\A c \in Cursors :
        (/\ last'.op = "select" /\ last'.cursor = c
         /\ last'.where.connector = "OR" /\ ~last'.where.negated)
        => /\ last'.err = "DatabaseError"
           /\ cursors'[c].all_filters = <<>>
           /\ cursors'[c].queries # <<>>
           /\ cursors'[c].queries[1].filters = {}
           /\ Tail(cursors'[c].queries) =
                 (IF cursors[c].queries = <<>> THEN <<>> ELSE Tail(cursors[c].queries))]_vars

\* a select with root OR over an IN leaf failed on a cursor that has
\* several pending queries
C14_Witness ==
    /\ last.op = "select"
    /\ last.where.connector = "OR" /\ ~last.where.negated
    /\ last.where.children # <<>>
    /\ last.where.children[1].lookup = "in"
    /\ last.err = "DatabaseError"
    /\ Len(cursors[last.cursor].queries) >= 2

(***************************************************************************)
(* C15  SQL execute fails with DatabaseError.  Cursor.execute raises an    *)
(* error of the DatabaseError family for every sql string and leaves the   *)
(* fields of the cursor as they were.  The code raises RuntimeError, which *)
(* is no DatabaseError.                                                    *)
(***************************************************************************)
C15_ExecuteRaisesDatabaseError ==
    [][\A c \in Cursors :
        (last'.op = "execute" /\ last'.cursor = c)
        => /\ last'.err \in DatabaseErrors
           /\ cursors'[c] = cursors[c]]_vars

(***************************************************************************)
(* C16  Filters after an IN leaf reach every fan-out query.  When a leaf   *)
(* that is not an IN leaf follows, in traversal order, an IN leaf of width *)
(* two or more, then after the lowering every emitted query carries the    *)
(* later leaf's filter.  The code sets it on self.query, the first of the  *)
(* pending queries, only.                                                  *)
(***************************************************************************)
FollowsWideIn(leaves, j) ==
    /\ leaves[j].lookup # "in"
    /\ \E i \in 1..(j - 1) : leaves[i].lookup = "in" /\ Len(leaves[i].value) >= 2

C16_FiltersReachEveryFanOut ==
    (Lowered /\ ConjunctionOnly(last.where)) =>
        LET leaves == LeavesOf(last.where)
            emitted == Emitted(cursors[last.cursor])
        IN  \A j \in 1..Len(leaves) :
                FollowsWideIn(leaves, j) =>
                    \A i \in 1..Len(emitted) :
                        <<FilterColumn(GetField(leaves[j].field)),
                          OPERATORS_MAP(leaves[j].lookup),
                          normalize_value(leaves[j])>> \in emitted[i].filters

(***************************************************************************)
(* C17  Nested conjunctions lower like flat ones.  The lowering of a tree  *)
(* of conjunctions that are not negated, one of them a child node with     *)
(* leaves, completes and leaves the native queries and the flat filter     *)
(* list that the lowering of the tree with the child's leaves inlined      *)
(* leaves.  The recursive call passes (negated, all_filters) in the places *)
(* of (all_filters, negated): the child's leaf is appended to a bool.      *)
(***************************************************************************)
\* the tree with the leaves of its child nodes inlined, in traversal order
Inlined(where) == Node(where.connector, where.negated, LeavesOf(where))

HasNestedLeaves(where) ==
    \E i \in 1..Len(where.children) :
        where.children[i].node /\ LeavesOf(where.children[i]) # <<>>

C17_NestedLikeFlat ==
    [][\A c \in Cursors :
        (/\ last'.op = "select" /\ last'.cursor = c
         /\ ConjunctionOnly(last'.where)
         /\ HasNestedLeaves(last'.where))
        => LET flat == Lower(cursors[c].queries,
                             [select |-> last'.select, where |-> Inlined(last'.where)])
           IN  /\ last'.err = ""
               /\ cursors'[c].queries = Wrap(flat.queries)
               /\ cursors'[c].all_filters = flat.filters]_vars

(***************************************************************************)
(* C18  Declared lookups are accepted.  The lowering of a conjunction      *)
(* whose leaves use keys of OPERATORS_MAP, one of them isnull, startswith, *)
(* range or year, completes without error, and every emitted query carries *)
(* a filter on the column of that leaf.  The code has no lowering for the  *)
(* four lookups: it stops in the debugger and fails the assertion.         *)
(***************************************************************************)
SpecialLookups == {"isnull", "startswith", "range", "year"}

AllLeavesDeclared(where) ==
    \A i \in 1..Len(LeavesOf(where)) :
        /\ LeavesOf(where)[i].lookup \in OPERATORS_MAP_KEYS
        /\ ~ListArgument(LeavesOf(where)[i])

C18_DeclaredLookupsAccepted ==
    (/\ last.op = "select"
     /\ ConjunctionOnly(last.where)
     /\ AllLeavesDeclared(last.where))
    => \A j \in 1..Len(LeavesOf(last.where)) :
          LeavesOf(last.where)[j].lookup \in SpecialLookups =>
              /\ last.err = ""
              /\ \A i \in 1..Len(Emitted(cursors[last.cursor])) :
                    HasFilterOn(Emitted(cursors[last.cursor])[i],
                                FilterColumn(GetField(LeavesOf(last.where)[j].field)))

(***************************************************************************)
(* C19  Cursor reuse starts fresh.  When a select completes on a cursor    *)
(* that fetched an earlier select, the next fetchmany evaluates the new    *)
(* query from the beginning, without the continuation token of the earlier *)
(* one, and returns its rows: what it returns on a cursor with no results  *)
(* and no token.  The code keeps self.results of the earlier query and     *)
(* builds the rows from it.                                                *)
(***************************************************************************)
\* the cursor with the results and the token of its earlier query dropped
Fresh(cur) == [cur EXCEPT !.results = NoResults, !.start_cursor = NoToken]

C19_CursorReuseStartsFresh ==
    [][\A c \in Cursors :
        (/\ last.op = "select" /\ last.err = "" /\ last.cursor = c
         /\ cursors[c].results.kind # "None"
         /\ last'.op = "fetchmany" /\ last'.cursor = c)
        => last'.out = RowsOf(Evaluate(Fresh(cursors[c]), last'.size).cur.results.items,
                              cursors[c].queried_fields)]_vars

(***************************************************************************)
(* C20  Cache hits respect the whole predicate.  Whenever fetchmany builds *)
(* its rows from an entity of the cache, the entity satisfies every triple *)
(* of the query's flat filter list, the inequalities and the equalities on *)
(* columns outside the matched unique constraint included.  The code       *)
(* returns the cached entity without testing it against the filters.       *)
(***************************************************************************)
ServedFromCache ==
    /\ last.op = "fetchmany"
    /\ last.out # <<>>
    /\ cursors[last.cursor].results.kind = "list"

C20_CacheHitRespectsPredicate ==
    ServedFromCache =>
        \A i \in 1..Len(cursors[last.cursor].results.items) :
            Matches(cursors[last.cursor].results.items[i],
                    Range(cursors[last.cursor].all_filters))

(***************************************************************************)
(* C21  Uniqueness under interleaved inserts.  After any sequence of       *)
(* inserts that completed, no two persisted entities have equal values on  *)
(* all columns of a unique constraint other than the primary key's, and a  *)
(* cache entry under the fingerprint of such a constraint refers to the    *)
(* only persisted entity with those values.  The write path never looks    *)
(* for an entity with the values: every row without a null violation is    *)
(* persisted.                                                              *)
(***************************************************************************)
NonPkUniques ==
    {get_uniques_from_model[u] : u \in 1..Len(get_uniques_from_model)}
        \ {<<PkField.column>>}

SameOn(fields, e1, e2) == \A i \in 1..Len(fields) : e1[fields[i]] = e2[fields[i]]

C21_UniquenessUnderInserts ==
    /\ \A i, j \in 1..Len(datastore) : \A fields \in NonPkUniques :
          i # j => ~SameOn(fields, datastore[i], datastore[j])
    /\ \A k \in 1..Len(cache) : \A fields \in NonPkUniques :
          cache[k].key = generate_unique_key(KeyParts(fields, cache[k].entity))
          => {datastore[i].key : i \in {j \in 1..Len(datastore) :
                  SameOn(fields, datastore[j], cache[k].entity)}}
             = {cache[k].entity.key}

====
